---- MODULE Spec2Model ----
(***************************************************************************)
(* Ledger store, Ledger API, client ledger cache, reporting aggregator and *)
(* tax calculator of the AccountingSystem repository.                      *)
(*                                                                         *)
(* The store is the PostgreSQL schema created by initializeDatabase, the   *)
(* API is the set of Express handlers that run one SQL statement each.     *)
(* Every handler is one atomic action: it reads the request, runs its      *)
(* statement(s) against the tables and leaves the response in resp.        *)
(* A call of the client provider is two actions: the request, which the    *)
(* server handles at once, and the continuation that reads the response.   *)
(*                                                                         *)
(* Spec is the Ledger API alone, ClientSpec one browser provider in front  *)
(* of it, ReportSpec the Reports page on a given collection, TaxSpec the   *)
(* calculate-tax function with table company_settings.                     *)
(*                                                                         *)
(* Encodings                                                               *)
(*   - JavaScript undefined / null are the strings Undefined / Null, so    *)
(*     that they can be compared with the empty string and with text.      *)
(*   - amounts in a request body of the Ledger API are integers in         *)
(*     thousandths of the currency unit; a DECIMAL(15,2) column, a cache   *)
(*     record and the tax calculator hold integers in hundredths.          *)
(*   - dates are day numbers; CURRENT_TIMESTAMP is a logical clock.        *)
(*   - "categories: null" of a response is the record NoCategory.          *)
(***************************************************************************)
EXTENDS Integers, Sequences, FiniteSets, TLC

VARIABLES
    transactions,   \* rows of table transactions
    categories,     \* rows of table categories
    nextId,         \* next value of the sequence behind transactions.id SERIAL
    req,            \* the request being answered (last request received)
    resp,           \* the response sent for req
    cache,          \* `transactions` of TransactionProvider (React state)
    prev,           \* cache as it was when the client read that response
    inflight,       \* responses sent by the server, not yet read by the client
    settled,        \* the response the client read last
    calls,          \* number of requests the provider has sent
    outcome,        \* how the promise of the call that resumed last ended
    report,         \* state of the Reports page (its useState values)
    timeZone,       \* UTC offset of the browser's time zone, in hours
    company_settings, \* rows of table company_settings
    taxReq,         \* the request the tax calculator is answering
    taxResp,        \* its response
    users,          \* rows of table users
    NODE_ENV,       \* process.env.NODE_ENV of the Express server
    apiReq,         \* the account request the Express server is answering
    apiResp         \* its response

serverVars == <<transactions, categories, nextId, req, resp>>
clientVars == <<cache, prev, inflight, settled, calls, outcome>>
reportVars == <<report, timeZone>>
taxVars == <<company_settings, taxReq, taxResp>>
apiVars == <<users, NODE_ENV, apiReq, apiResp>>

vars == <<transactions, categories, nextId, req, resp,
          cache, prev, inflight, settled, calls, outcome,
          report, timeZone, company_settings, taxReq, taxResp,
          users, NODE_ENV, apiReq, apiResp>>

\* Largest value the transactions.id sequence may hand out in the model.
MaxTx == 2

Undefined == "undefined"
Null == "null"

\* Rows of table users (the API never deletes a user).
Users == {"u1", "u2"}

Types == {"income", "expense"}
Dates == {1, 2}

\* Sample rows inserted by initializeDatabase.
SampleCategories ==
    { [id |-> "c1", name |-> "Salary", type |-> "income",  color |-> "#10b981"],
      [id |-> "c3", name |-> "Food",   type |-> "expense", color |-> "#ef4444"] }

NoCategory == [id |-> Null, name |-> Null, color |-> Null]

NoRow ==
    [id |-> 0, user_id |-> Null, amount |-> 0, type |-> Null, date |-> 0,
     account |-> Null, document_no |-> Null, description |-> Null,
     category_id |-> Null, created_at |-> 0]

NoBody ==
    [user_id |-> Undefined, amount |-> 0, type |-> Undefined, date |-> 0,
     account |-> Undefined, document_no |-> Undefined, description |-> Undefined,
     category_id |-> Undefined]

----------------------------------------------------------------------------
(* Request bodies *)

\* The request bodies that are sent, apart from user_id: (type, amount in
\* thousandths, date, account, document_no, description, category_id).
Templates ==
    { \* 2.00, every optional field given
      <<"income", 2000, 1, "acc", "doc", "desc", "c1">>,
      \* 1.50, optional fields empty, absent and null
      <<"expense", 1500, 2, "", Undefined, Null, "">>,
      \* 1.005 has more than two decimal places
      <<"income", 1005, 2, "acc", Null, "desc", "c3">>,
      \* -0.50: the server does not validate the sign
      <<"expense", -500, 1, Null, "doc", "", Undefined>> }

Body(u, t) ==
    [user_id |-> u, type |-> t[1], amount |-> t[2], date |-> t[3],
     account |-> t[4], document_no |-> t[5], description |-> t[6],
     category_id |-> t[7]]

Bodies == { Body(u, t) : u \in Users, t \in Templates }

----------------------------------------------------------------------------
(* Values as the handlers and the store convert them *)

\* JavaScript `x || null` on a string-or-null value: undefined, null and the
\* empty string are falsy.
OrNull(x) == IF x \in {Undefined, Null, ""} THEN Null ELSE x

\* CategoryIdValue with the test for the empty string left out.
CategoryIdValue_OnlyUndefined(category_id) ==
    IF category_id = Undefined THEN Null ELSE category_id

\* categoryIdValue of POST /api/transactions.
CategoryIdValue(category_id) ==
    IF category_id = "" \/ category_id = Undefined THEN Null ELSE category_id

\* JavaScript `!x` on a route or query parameter (a string or undefined).
Missing(x) == x \in {Undefined, ""}

\* The driver sends an undefined parameter as SQL NULL.
SqlParam(x) == IF x = Undefined THEN Null ELSE x

\* A value stored in a DECIMAL(15, 2) column: rounded to two decimal places,
\* halves away from zero.  m is in thousandths, the result in hundredths.
Decimal2(m) == IF m >= 0 THEN (m + 5) \div 10 ELSE -((-m + 5) \div 10)

\* CURRENT_TIMESTAMP, as a logical clock that ticks with every INSERT.
Now == nextId

----------------------------------------------------------------------------
(* SQL statements of the handlers *)

CategoryIds == { c.id : c \in categories }

\* Foreign keys of table transactions: user_id REFERENCES users(id),
\* category_id REFERENCES categories(id); a NULL reference is not checked.
ForeignKeysHold(user_id, category_id) ==
    /\ user_id = Null \/ user_id \in Users
    /\ category_id = Null \/ category_id \in CategoryIds

\* InsertParams with `|| null` left out for account, document_no and
\* description.
InsertParams_KeepEmpty(b) ==
    [user_id     |-> SqlParam(b.user_id),
     amount      |-> b.amount,
     type        |-> b.type,
     date        |-> b.date,
     account     |-> SqlParam(b.account),
     document_no |-> SqlParam(b.document_no),
     description |-> SqlParam(b.description),
     category_id |-> CategoryIdValue(b.category_id)]

\* The parameter array of the INSERT of POST /api/transactions.
InsertParams(b) ==
    [user_id     |-> SqlParam(b.user_id),
     amount      |-> b.amount,
     type        |-> b.type,
     date        |-> b.date,
     account     |-> OrNull(b.account),
     document_no |-> OrNull(b.document_no),
     description |-> OrNull(b.description),
     category_id |-> CategoryIdValue(b.category_id)]

\* The row INSERT INTO transactions ... RETURNING * builds from its parameters.
InsertedRow(p) ==
    [id |-> nextId, user_id |-> p.user_id, amount |-> Decimal2(p.amount),
     type |-> p.type, date |-> p.date, account |-> p.account,
     document_no |-> p.document_no, description |-> p.description,
     category_id |-> p.category_id, created_at |-> Now]

\* UpdateParams with $4 and $5 (account and document_no) in each other's place.
UpdateParams_Swapped(b) ==
    [amount      |-> b.amount,
     type        |-> b.type,
     date        |-> b.date,
     account     |-> OrNull(b.document_no),
     document_no |-> OrNull(b.account),
     description |-> OrNull(b.description),
     category_id |-> OrNull(b.category_id)]

\* The parameter array of the UPDATE of PUT /api/transactions/:id ($1..$7).
UpdateParams(b) ==
    [amount      |-> b.amount,
     type        |-> b.type,
     date        |-> b.date,
     account     |-> OrNull(b.account),
     document_no |-> OrNull(b.document_no),
     description |-> OrNull(b.description),
     category_id |-> OrNull(b.category_id)]

\* RowsWithId with the WHERE clause left out.
RowsWithId_NoWhere(id) == transactions

\* WHERE id = $n on table transactions.
RowsWithId(id) == { r \in transactions : r.id = id }

\* UpdatedRow that also sets created_at = CURRENT_TIMESTAMP.
UpdatedRow_Touch(r, p) ==
    [r EXCEPT !.type = p.type, !.amount = Decimal2(p.amount), !.date = p.date,
              !.account = p.account, !.document_no = p.document_no,
              !.description = p.description, !.category_id = p.category_id,
              !.created_at = Now]

\* SET type=$1, amount=$2, date=$3, account=$4, document_no=$5,
\* description=$6, category_id=$7 applied to row r.
UpdatedRow(r, p) ==
    [r EXCEPT !.type = p.type, !.amount = Decimal2(p.amount), !.date = p.date,
              !.account = p.account, !.document_no = p.document_no,
              !.description = p.description, !.category_id = p.category_id]

\* UPDATE transactions SET ... WHERE id=$8 RETURNING *: the rows it returns.
UpdateReturning(id, p) == { UpdatedRow(r, p) : r \in RowsWithId(id) }

\* DeleteFrom that removes every row of the user who owns row id.
DeleteFrom_AllOfUser(id) ==
    { t \in transactions : \A r \in RowsWithId(id) : t.user_id # r.user_id }

\* DELETE FROM transactions WHERE id = $1: the table it leaves.
DeleteFrom(id) == transactions \ RowsWithId(id)

\* The referential action of transactions.category_id REFERENCES
\* categories(id): no ON DELETE clause, which is NO ACTION.
OnDeleteCategory == "NO ACTION"

\* SELECT * FROM categories [WHERE type = $1].
SelectCategories(type) ==
    IF Missing(type) THEN categories ELSE { c \in categories : c.type = type }

\* SELECT id, name, color FROM categories WHERE id = $1, or null.
CategoryInfo(category_id) ==
    IF \E c \in categories : c.id = category_id
    THEN LET c == CHOOSE c \in categories : c.id = category_id
         IN  [id |-> c.id, name |-> c.name, color |-> c.color]
    ELSE NoCategory

\* One result row of the SELECT of GET /api/transactions: the listed columns
\* of t and the LEFT JOIN categories c ON t.category_id = c.id.
ListedRow(t) ==
    [id |-> t.id, user_id |-> t.user_id, amount |-> t.amount, type |-> t.type,
     date |-> t.date, account |-> t.account, document_no |-> t.document_no,
     description |-> t.description, category_id |-> t.category_id,
     categories |-> CategoryInfo(t.category_id)]

\* The same result row as backend/server.js selects it: t.*, c.name AS
\* category_name, c.color AS category_color.
FlatRow(l) ==
    [id |-> l.id, user_id |-> l.user_id, amount |-> l.amount, type |-> l.type,
     date |-> l.date, account |-> l.account, document_no |-> l.document_no,
     description |-> l.description, category_id |-> l.category_id,
     category_name |-> l.categories.name, category_color |-> l.categories.color]

\* WHERE t.user_id = $1.
RowsOfUser(user_id) == { t \in transactions : t.user_id = user_id }

\* OrderedByDateDesc with the direction reversed (ORDER BY t.date ASC).
OrderedByDateAsc(s) ==
    \A i \in 1..Len(s), j \in 1..Len(s) : i < j => s[i].date <= s[j].date

\* ORDER BY t.date DESC: s is in non-increasing date order.
OrderedByDateDesc(s) ==
    \A i \in 1..Len(s), j \in 1..Len(s) : i < j => s[i].date >= s[j].date

\* All sequences that list every element of the set S exactly once.
Orderings(S) ==
    { s \in [1..Cardinality(S) -> S] :
        \A i, j \in 1..Cardinality(S) : i # j => s[i] # s[j] }

\* The result sets the SELECT of GET /api/transactions may return: rows of
\* equal date come in an order the store chooses.
SelectTransactions(user_id) ==
    { s \in Orderings({ ListedRow(t) : t \in RowsOfUser(user_id) }) :
        OrderedByDateDesc(s) }

\* The records a listTransactions call for user_id returns in this state.
Listed(user_id) ==
    { s[i] : s \in SelectTransactions(user_id), i \in 1..Cardinality(RowsOfUser(user_id)) }

----------------------------------------------------------------------------
(* Requests and responses *)

\* param is the query parameter of a GET (user_id or type) or the key of a
\* statement run on the store.
Request(op, caller, id, param, body) ==
    [op |-> op, caller |-> caller, id |-> id, param |-> param, body |-> body]

Response(status, row, cat, rows) ==
    [status |-> status, row |-> row, categories |-> cat, rows |-> rows]

\* A response as the client reads it: the call it answers, the argument of
\* the call (a user id or a transaction id), res.ok, and the records of the
\* parsed body.
Answer(call, user_id, id, ok, records) ==
    [call |-> call, user_id |-> user_id, id |-> id, ok |-> ok, records |-> records]

NoAnswer == Answer("none", Undefined, 0, FALSE, <<>>)

\* useState<Transaction[]>([]): the provider starts with an empty list and
\* no call under way.
ClientInit ==
    /\ cache = <<>>
    /\ prev = <<>>
    /\ inflight = {}
    /\ settled = NoAnswer
    /\ calls = 0
    /\ outcome = "pending"

\* The useState values of the Reports page when it mounts with the range
\* startDate .. endDate.
ReportState(startDate, endDate) ==
    [loading |-> TRUE, startDate |-> startDate, endDate |-> endDate,
     totalIncome |-> 0, totalExpenses |-> 0, netBalance |-> 0,
     incomeByCategory |-> <<>>, expensesByCategory |-> <<>>,
     monthlyData |-> <<>>]

\* The Reports page is not open.
ReportsInit ==
    /\ report = ReportState(0, 0)
    /\ timeZone = 0

\* A request to the tax calculator: the user of the Authorization header
\* (Undefined if it names none) and the body.  Amounts are integers in
\* hundredths, rates are percentages.
TaxRequest(caller, amount, type) ==
    [caller |-> caller, amount |-> amount, type |-> type]

\* A response of the tax calculator.  incomeTax tells whether the body has
\* the properties incomeTaxAmount and incomeTaxRate.
TaxResponse(status, vatAmount, vatRate, amountWithoutVat, incomeTax, incomeTaxAmount, incomeTaxRate) ==
    [status |-> status, vatAmount |-> vatAmount, vatRate |-> vatRate,
     amountWithoutVat |-> amountWithoutVat, incomeTax |-> incomeTax,
     incomeTaxAmount |-> incomeTaxAmount, incomeTaxRate |-> incomeTaxRate]

\* A response that is an error message.
TaxError(status) == TaxResponse(status, 0, 0, 0, FALSE, 0, 0)

\* No company has saved its settings and the tax calculator was not called.
TaxInit ==
    /\ company_settings = {}
    /\ taxReq = TaxRequest(Undefined, 0, Undefined)
    /\ taxResp = TaxError(0)

\* The body of a login or signup request.  A property the body lacks is
\* Undefined.
Credentials(name, email, user_type, password) ==
    [name |-> name, email |-> email, user_type |-> user_type, password |-> password]

NoCredentials == Credentials(Undefined, Undefined, Undefined, Undefined)

\* A request to the Express server: its route, its body, and the error the
\* store raised while the handler ran (NoError if it raised none).
ApiRequest(route, body, failure) ==
    [route |-> route, body |-> body, failure |-> failure]

NoError == "no error"

\* No property `user` in a response body.
NoUser == [id |-> 0, name |-> Undefined, email |-> Undefined, user_type |-> Undefined]

\* A response of the Express server: the status and the properties message,
\* error and user of its JSON body (Undefined for a property it lacks).
ApiResponse(status, message, error, user) ==
    [status |-> status, message |-> message, error |-> error, user |-> user]

\* The values process.env.NODE_ENV takes; Undefined when it is not set.
Environments == {"development", "production", Undefined}

\* Table users is empty, NODE_ENV is not set and the server has
\* answered nothing.
ApiInit ==
    /\ users = {}
    /\ NODE_ENV = Undefined
    /\ apiReq = ApiRequest("none", NoCredentials, NoError)
    /\ apiResp = ApiResponse(0, Undefined, Undefined, NoUser)

Init ==
    /\ transactions = {}
    /\ categories = SampleCategories
    /\ nextId = 1
    /\ req = Request("none", Undefined, 0, Undefined, NoBody)
    /\ resp = Response(0, NoRow, NoCategory, <<>>)
    /\ ClientInit
    /\ ReportsInit
    /\ TaxInit
    /\ ApiInit

\* POST /api/transactions: one INSERT ... RETURNING *.  A constraint violation
\* is caught and answered 500; the sequence value it drew is not given back.
PostTransaction(b) ==
    /\ nextId <= MaxTx
    /\ req' = Request("create", b.user_id, 0, Undefined, b)
    /\ nextId' = nextId + 1
    /\ LET p == InsertParams(b) IN
         IF ForeignKeysHold(p.user_id, p.category_id)
         THEN /\ transactions' = transactions \cup {InsertedRow(p)}
              /\ resp' = Response(201, InsertedRow(p), NoCategory, <<>>)
         ELSE /\ transactions' = transactions
              /\ resp' = Response(500, NoRow, NoCategory, <<>>)
    /\ UNCHANGED categories

\* PUT /api/transactions/:id: UPDATE ... WHERE id=$8 RETURNING *, then a
\* SELECT of the category of the updated row.  The body's user_id is read by
\* no statement.  A statement that matches no row checks no constraint.
PutTransaction(id, b) ==
    /\ req' = Request("update", b.user_id, id, Undefined, b)
    /\ LET p == UpdateParams(b)
           returned == UpdateReturning(id, p)
       IN  IF returned = {}
           THEN /\ transactions' = transactions
                /\ resp' = Response(404, NoRow, NoCategory, <<>>)
           ELSE IF ~ \A r \in returned : ForeignKeysHold(r.user_id, r.category_id)
           THEN /\ transactions' = transactions
                /\ resp' = Response(500, NoRow, NoCategory, <<>>)
           ELSE LET transaction == CHOOSE r \in returned : TRUE IN
                /\ transactions' = (transactions \ RowsWithId(id)) \cup returned
                /\ resp' = Response(200, transaction,
                                    IF transaction.category_id # Null
                                    THEN CategoryInfo(transaction.category_id)
                                    ELSE NoCategory,
                                    <<>>)
    /\ UNCHANGED <<categories, nextId>>

\* DELETE /api/transactions/:id issued by a client signed in as caller:
\* DELETE FROM transactions WHERE id = $1 RETURNING *.
DeleteTransaction(caller, id) ==
    /\ req' = Request("delete", caller, id, Undefined, NoBody)
    /\ IF RowsWithId(id) = {}
       THEN /\ transactions' = transactions
            /\ resp' = Response(404, NoRow, NoCategory, <<>>)
       ELSE /\ transactions' = DeleteFrom(id)
            /\ resp' = Response(200, CHOOSE r \in RowsWithId(id) : TRUE,
                                NoCategory, <<>>)
    /\ UNCHANGED <<categories, nextId>>

\* GET /api/transactions?user_id=
GetTransactions(user_id) ==
    /\ req' = Request("list", user_id, 0, user_id, NoBody)
    /\ IF Missing(user_id)
       THEN resp' = Response(400, NoRow, NoCategory, <<>>)
       ELSE \E rows \in SelectTransactions(user_id) :
                resp' = Response(200, NoRow, NoCategory, rows)
    /\ UNCHANGED <<transactions, categories, nextId>>

\* GET /api/transactions?user_id= of backend/server.js: the same WHERE and
\* ORDER BY, every column of t and the category as two flat columns.
GetTransactionsFlat(user_id) ==
    /\ req' = Request("list", user_id, 0, user_id, NoBody)
    /\ IF Missing(user_id)
       THEN resp' = Response(400, NoRow, NoCategory, <<>>)
       ELSE \E rows \in SelectTransactions(user_id) :
                resp' = Response(200, NoRow, NoCategory,
                                 [i \in 1..Len(rows) |-> FlatRow(rows[i])])
    /\ UNCHANGED <<transactions, categories, nextId>>

\* GET /api/categories?type=.  The rows come in the order the store chooses;
\* the first one is kept in resp.categories as a sample of the result set.
GetCategories(type) ==
    /\ req' = Request("categories", Undefined, 0, type, NoBody)
    /\ IF SelectCategories(type) = {}
       THEN resp' = Response(200, NoRow, NoCategory, <<>>)
       ELSE \E c \in SelectCategories(type) :
                resp' = Response(200, NoRow,
                                 [id |-> c.id, name |-> c.name, color |-> c.color],
                                 <<>>)
    /\ UNCHANGED <<transactions, categories, nextId>>

\* DELETE FROM categories WHERE id = c, run on the store (no handler of the
\* API deletes a category).  Under NO ACTION the statement fails while a
\* transaction references the category; under SET NULL the references are
\* cleared.  Status 200 stands for a completed statement, 500 for an error.
DeleteCategory(c) ==
    /\ c \in CategoryIds
    /\ req' = Request("deleteCategory", Undefined, 0, c, NoBody)
    /\ LET referencing == { t \in transactions : t.category_id = c } IN
         IF referencing = {}
         THEN /\ categories' = { x \in categories : x.id # c }
              /\ transactions' = transactions
              /\ resp' = Response(200, NoRow, NoCategory, <<>>)
         ELSE IF OnDeleteCategory = "SET NULL"
         THEN /\ categories' = { x \in categories : x.id # c }
              /\ transactions' =
                    { IF t \in referencing THEN [t EXCEPT !.category_id = Null] ELSE t :
                        t \in transactions }
              /\ resp' = Response(200, NoRow, NoCategory, <<>>)
         ELSE /\ categories' = categories
              /\ transactions' = transactions
              /\ resp' = Response(500, NoRow, NoCategory, <<>>)
    /\ UNCHANGED nextId

\* Identifiers a client may put in the path of PUT and DELETE.
Ids == 1..MaxTx

\* A request that does not come from the modelled client provider leaves the
\* provider alone.
NoClient == UNCHANGED clientVars

\* The Ledger API and the provider do not touch the Reports page, and the
\* tax calculator is a separate service with its own table.
NoReports == UNCHANGED reportVars
NoTax == UNCHANGED taxVars
NoApi == UNCHANGED apiVars

LedgerOnly == NoClient /\ NoReports /\ NoTax /\ NoApi

Next ==
    \/ \E b \in Bodies : PostTransaction(b) /\ LedgerOnly
    \/ \E id \in Ids, b \in Bodies : PutTransaction(id, b) /\ LedgerOnly
    \/ \E caller \in Users, id \in Ids : DeleteTransaction(caller, id) /\ LedgerOnly
    \/ \E user_id \in Users \cup {Undefined, ""} : GetTransactions(user_id) /\ LedgerOnly
    \/ \E user_id \in Users \cup {Undefined, ""} : GetTransactionsFlat(user_id) /\ LedgerOnly
    \/ \E type \in Types \cup {Undefined} : GetCategories(type) /\ LedgerOnly
    \/ \E c \in {"c1", "c3"} : DeleteCategory(c) /\ LedgerOnly

Spec == Init /\ [][Next]_vars

----------------------------------------------------------------------------
(* Properties of the Ledger API *)

\* A transaction input with an existing user, a positive amount, one of the
\* two types and a date.
PositiveInput(b) ==
    /\ b.user_id \in Users
    /\ b.amount > 0
    /\ b.type \in Types
    /\ b.date \in Dates

\* A valid transaction input: its amount also has at most two decimal places.
ValidInput(b) == PositiveInput(b) /\ b.amount % 10 = 0

\* An optional field read back as out equals the input in; an absent input
\* reads back as null.
SameOptional(out, in) == out = in \/ (in = Undefined /\ out = Null)

\* An optional input with the empty string and the absent value read as null.
EmptyAsNull(in) == IF in \in {"", Undefined} THEN Null ELSE in

\* amount (hundredths) is the input (thousandths) rounded to two decimal places.
RoundedTo2(amount, in) == 10 * amount - in \in -5..5

\* C1 as stated: after a successful createTransaction of a valid input,
\* listTransactions for the same user returns a record whose type, amount,
\* date, account, document number, description and category id equal the input.
C1_CreateThenListEqualsInput ==
    (req.op = "create" /\ resp.status = 201 /\ ValidInput(req.body)) =>
        \E r \in Listed(req.body.user_id) :
            /\ r.type = req.body.type
            /\ 10 * r.amount = req.body.amount
            /\ r.date = req.body.date
            /\ SameOptional(r.account, req.body.account)
            /\ SameOptional(r.document_no, req.body.document_no)
            /\ SameOptional(r.description, req.body.description)
            /\ SameOptional(r.category_id, req.body.category_id)

\* C1 as amended: after a successful createTransaction of an input with a
\* positive amount, listTransactions for the same user returns the created
\* record with the type and date of the input, the amount of the input
\* rounded to two decimal places (the input itself when it has no more), and
\* the account, document number, description and category id of the input
\* with an empty string or absent value read back as null.
C1_CreateThenListNormalized ==
    (req.op = "create" /\ resp.status = 201 /\ PositiveInput(req.body)) =>
        \E r \in Listed(req.body.user_id) :
            /\ r.id = resp.row.id
            /\ r.user_id = req.body.user_id
            /\ r.type = req.body.type
            /\ RoundedTo2(r.amount, req.body.amount)
            /\ ValidInput(req.body) => 10 * r.amount = req.body.amount
            /\ r.date = req.body.date
            /\ r.account = EmptyAsNull(req.body.account)
            /\ r.document_no = EmptyAsNull(req.body.document_no)
            /\ r.description = EmptyAsNull(req.body.description)
            /\ r.category_id = EmptyAsNull(req.body.category_id)

\* C1 witness: a valid input with an empty account and an empty category id
\* has been created and is listed with both read back as null.
C1_Witness ==
    /\ req.op = "create" /\ resp.status = 201 /\ ValidInput(req.body)
    /\ req.body.account = ""
    /\ req.body.category_id = ""
    /\ \E r \in Listed(req.body.user_id) :
            r.id = resp.row.id /\ r.account = Null /\ r.category_id = Null

\* C2: every stored and every returned transaction has amount >= 0.
C2_AmountNonNegative ==
    /\ \A t \in transactions : t.amount >= 0
    /\ resp.row.amount >= 0
    /\ \A i \in 1..Len(resp.rows) : resp.rows[i].amount >= 0

\* C3 as stated, for the records X with a valid amount: after a successful
\* updateTransaction(id, X), listTransactions for the owning user returns a
\* record with that id whose type, amount, date, account, document number,
\* description and category id equal those of X.
C3_UpdateThenListEqualsInput ==
    (req.op = "update" /\ resp.status = 200 /\ ValidInput(req.body)) =>
        \E r \in Listed(resp.row.user_id) :
            /\ r.id = req.id
            /\ r.type = req.body.type
            /\ 10 * r.amount = req.body.amount
            /\ r.date = req.body.date
            /\ SameOptional(r.account, req.body.account)
            /\ SameOptional(r.document_no, req.body.document_no)
            /\ SameOptional(r.description, req.body.description)
            /\ SameOptional(r.category_id, req.body.category_id)

\* C3 as amended: after a successful updateTransaction(id, X),
\* listTransactions for the owning user returns a record with that id whose
\* type and date equal those of X, whose amount is X's rounded to two decimal
\* places, and whose account, document number, description and category id
\* are X's with an empty string or absent value read back as null.
C3_UpdateThenListNormalized ==
    (req.op = "update" /\ resp.status = 200) =>
        \E r \in Listed(resp.row.user_id) :
            /\ r.id = req.id
            /\ r.type = req.body.type
            /\ RoundedTo2(r.amount, req.body.amount)
            /\ ValidInput(req.body) => 10 * r.amount = req.body.amount
            /\ r.date = req.body.date
            /\ r.account = EmptyAsNull(req.body.account)
            /\ r.document_no = EmptyAsNull(req.body.document_no)
            /\ r.description = EmptyAsNull(req.body.description)
            /\ r.category_id = EmptyAsNull(req.body.category_id)

\* C3 witness: an update whose record has an empty account and an absent
\* document number has succeeded.
C3_Witness ==
    /\ req.op = "update" /\ resp.status = 200
    /\ req.body.account = ""
    /\ req.body.document_no = Undefined
    /\ resp.row \in transactions

\* C4: deleteTransaction(id) on an existing row answers 200 with that row's
\* snapshot and removes exactly that row; on an id that matches no row, and
\* so on a second deleteTransaction(id) right after a successful one, it
\* answers 404 and leaves the store unchanged.
C4_DeleteOnceThenNotFound ==
    [][ req'.op = "delete" =>
          /\ IF \E t \in transactions : t.id = req'.id
             THEN \E t \in transactions :
                    /\ t.id = req'.id
                    /\ resp'.status = 200
                    /\ resp'.row = t
                    /\ transactions' = transactions \ {t}
             ELSE /\ resp'.status = 404
                  /\ transactions' = transactions
          /\ (req.op = "delete" /\ resp.status = 200 /\ req'.id = req.id) =>
                (resp'.status = 404 /\ transactions' = transactions)
          /\ categories' = categories
      ]_vars

\* C4 witness: a delete of an identifier that was created and deleted before
\* has been answered 404.  (While no category has been deleted every INSERT
\* succeeds, so an identifier below nextId that is not stored was deleted.)
C4_Witness ==
    /\ req.op = "delete" /\ resp.status = 404
    /\ req.id < nextId
    /\ categories = SampleCategories
    /\ transactions # {}

\* C5: a transaction is updated or deleted only on behalf of the user who
\* owns it.
C5_OnlyOwnerModifies ==
    (req.op \in {"update", "delete"} /\ resp.status = 200) =>
        resp.row.user_id = req.caller

\* C6: deleting a category succeeds, deletes no transaction, and every
\* transaction that referenced it keeps its other fields with a null
\* category reference.
C6_CategoryDeleteSetsNull ==
    [][ req'.op = "deleteCategory" =>
          /\ resp'.status = 200
          /\ \A c \in categories' : c.id # req'.param
          /\ transactions' =
                { IF t.category_id = req'.param
                  THEN [t EXCEPT !.category_id = Null]
                  ELSE t : t \in transactions }
      ]_vars

\* C7: updateTransaction with an id that matches no row answers 404 and
\* leaves every table as it was.
C7_UpdateMissingNotFound ==
    [][ (req'.op = "update" /\ ~ \E t \in transactions : t.id = req'.id) =>
          /\ resp'.status = 404
          /\ transactions' = transactions
          /\ categories' = categories
          /\ nextId' = nextId
      ]_vars

\* C7 witness: an update of an identifier that is not stored has been
\* answered 404 while other rows are stored.
C7_Witness ==
    /\ req.op = "update" /\ resp.status = 404
    /\ transactions # {}
    /\ \A t \in transactions : t.id # req.id

\* C8: a successful updateTransaction leaves the row's id, owning user and
\* creation timestamp as they were, whatever user_id the body carries, sets
\* its seven mutable fields, and leaves every other row unchanged.
C8_UpdateFrame ==
    [][ (req'.op = "update" /\ resp'.status = 200) =>
          \E old \in transactions :
            /\ old.id = req'.id
            /\ resp'.row.id = old.id
            /\ resp'.row.user_id = old.user_id
            /\ resp'.row.created_at = old.created_at
            /\ transactions' = (transactions \ {old}) \cup {resp'.row}
            /\ categories' = categories
      ]_vars

\* C8 witness: an update whose body carries another user's id has succeeded
\* while a second row is stored.
C8_Witness ==
    /\ req.op = "update" /\ resp.status = 200
    /\ req.body.user_id # resp.row.user_id
    /\ resp.row \in transactions
    /\ Cardinality(transactions) >= 2

\* The stored columns of a listed row or of a table row.
Columns(r) ==
    [id |-> r.id, user_id |-> r.user_id, amount |-> r.amount, type |-> r.type,
     date |-> r.date, account |-> r.account, document_no |-> r.document_no,
     description |-> r.description, category_id |-> r.category_id]

\* C9: listTransactions without a user id answers 400 with no rows; with a
\* user id it answers exactly the stored transactions of that user, each
\* once, in non-increasing date order; it never changes the store.
C9_ListExactlyOwnRowsByDate ==
    [][ req'.op = "list" =>
          /\ transactions' = transactions
          /\ categories' = categories
          /\ IF req'.param \in {Undefined, ""}
             THEN resp'.status = 400 /\ resp'.rows = <<>>
             ELSE /\ resp'.status = 200
                  /\ { Columns(resp'.rows[i]) : i \in 1..Len(resp'.rows) } =
                        { Columns(t) : t \in { x \in transactions : x.user_id = req'.param } }
                  /\ \A i, j \in 1..Len(resp'.rows) :
                        i < j => /\ resp'.rows[i].id # resp'.rows[j].id
                                 /\ resp'.rows[i].date >= resp'.rows[j].date
      ]_vars

\* C9 witness: a list has returned two rows of different dates, the later
\* date first although that row was created last.
C9_Witness ==
    /\ req.op = "list" /\ resp.status = 200
    /\ Len(resp.rows) = 2
    /\ resp.rows[1].date > resp.rows[2].date
    /\ resp.rows[1].id > resp.rows[2].id

\* C10: a createTransaction whose user exists and whose category id is the
\* empty string, absent, or an existing category succeeds and stores a null
\* category reference in the first two cases and the given id otherwise; no
\* stored row has the empty string as its category reference.
C10_EmptyCategoryStoredAsNull ==
    /\ \A t \in transactions : t.category_id # ""
    /\ (/\ req.op = "create"
        /\ req.body.user_id \in Users
        /\ req.body.category_id \in {"", Undefined} \cup { c.id : c \in categories })
       => /\ resp.status = 201
          /\ resp.row \in transactions
          /\ resp.row.category_id =
                IF req.body.category_id \in {"", Undefined}
                THEN Null ELSE req.body.category_id

\* C10 witness: a create with the empty string as category id has stored a
\* null reference.
C10_Witness ==
    /\ req.op = "create" /\ resp.status = 201
    /\ req.body.category_id = ""
    /\ resp.row.category_id = Null
    /\ resp.row \in transactions

----------------------------------------------------------------------------
(* Client ledger cache: TransactionProvider *)

\* Calls of the provider that may be awaiting their response at one time.
MaxInFlight == 2

\* Requests the provider sends in one run.
MaxCalls == 3

\* user.id of useAuth(): the user signed in in the browser.
ClientUser == "u1"

\* The inputs the transaction forms submit: validated, with `|| null`
\* applied to the optional fields.
ClientTemplates ==
    { <<"income", 2000, 1, "acc", "doc", "desc", "c1">>,
      <<"expense", 1500, 2, Null, Null, Null, "c3">> }

\* An input whose category is not in table categories (it was deleted after
\* the form loaded its options): the INSERT fails.
StaleTemplates == { <<"expense", 1500, 2, Null, Null, Null, "c9">> }

ClientBodies == { Body(ClientUser, t) : t \in ClientTemplates }

\* A record of the cache (interface Transaction) parsed from a response body.
\* A property the body does not carry is 0 for created_at and NoCategory for
\* categories (undefined and null are both falsy for the readers of the cache).
Transaction(r, created_at, cat) ==
    [id |-> r.id, user_id |-> r.user_id, amount |-> r.amount, type |-> r.type,
     date |-> r.date, account |-> r.account, document_no |-> r.document_no,
     description |-> r.description, category_id |-> r.category_id,
     created_at |-> created_at, categories |-> cat]

\* res.ok
Ok(status) == status \in 200..299

\* The response of the request just handled, as the client will read it.
\* POST returns the inserted row, PUT the updated row with its category,
\* GET the listed rows, DELETE a message.
AnswerOf(call, user_id, id, r) ==
    Answer(call, user_id, id, Ok(r.status),
           IF ~Ok(r.status) THEN <<>>
           ELSE IF call = "add"
                THEN << Transaction(r.row, r.row.created_at, NoCategory) >>
           ELSE IF call = "update"
                THEN << Transaction(r.row, r.row.created_at, r.categories) >>
           ELSE IF call = "fetch"
                THEN [i \in 1..Len(r.rows) |->
                        Transaction(r.rows[i], 0, r.rows[i].categories)]
           ELSE <<>>)

\* `await fetch(...)`: the request is handled by the server and the response
\* waits until the call resumes.  Equal responses waiting at the same time
\* are kept once (reading either has the same effect on the cache).
Await(call, user_id, id) ==
    /\ Cardinality(inflight) < MaxInFlight
    /\ calls < MaxCalls
    /\ calls' = calls + 1
    /\ inflight' = inflight \cup {AnswerOf(call, user_id, id, resp')}
    /\ UNCHANGED <<cache, prev, settled, outcome>>
    /\ NoReports /\ NoTax /\ NoApi

\* The call that sent the request of m resumes with the response.
Resume(m) ==
    /\ m \in inflight
    /\ inflight' = inflight \ {m}
    /\ settled' = m
    /\ prev' = cache
    /\ UNCHANGED <<serverVars, calls>>
    /\ NoReports /\ NoTax /\ NoApi

\* (prev) => [...prev, newTransaction] with the new record left out.
Appended_Nothing(list, newTransaction) == list

\* (prev) => [...prev, newTransaction]
Appended_Prepend(list, newTransaction) == <<newTransaction>> \o list

Appended(list, newTransaction) == list \o <<newTransaction>>

\* (prev) => prev.map((t) => (t.id === tx.id ? updatedTx : t))
Mapped_KeepOld(list, id, updatedTx) == list

Mapped(list, id, updatedTx) ==
    [i \in 1..Len(list) |-> IF list[i].id = id THEN updatedTx ELSE list[i]]

\* (prev) => prev.filter((t) => t.id !== id)
Filtered_DropFirst(list, id) ==
    IF list = <<>> THEN list ELSE Tail(list)

Filtered(list, id) == SelectSeq(list, LAMBDA t : t.id # id)

\* setTransactions(data)
Replaced_Merge(list, data) == list \o data

Replaced(list, data) == data

\* The list after a call that throws before it reaches setTransactions,
\* emptied.
Thrown_Cleared(list) == <<>>

\* The list after a call that throws before it reaches setTransactions.
Thrown(list) == list

\* addTransaction, up to `await fetch`.
addTransaction(transactionData) ==
    /\ PostTransaction(transactionData)
    /\ Await("add", transactionData.user_id, 0)

\* addTransaction, from `if (!res.ok)`: a failed response throws.
addTransactionResume(m) ==
    /\ m.call = "add"
    /\ Resume(m)
    /\ cache' = IF m.ok THEN Appended(cache, m.records[1]) ELSE Thrown(cache)
    /\ outcome' = IF m.ok THEN "fulfilled" ELSE "rejected"

\* fetchTransactions, up to `await fetch`.
fetchTransactions(user_id) ==
    /\ GetTransactions(user_id)
    /\ Await("fetch", user_id, 0)

\* fetchTransactions, from `if (!res.ok)`: a failed response is logged and
\* the promise is fulfilled all the same.
fetchTransactionsResume(m) ==
    /\ m.call = "fetch"
    /\ Resume(m)
    /\ cache' = IF m.ok THEN Replaced(cache, m.records) ELSE Thrown(cache)
    /\ outcome' = "fulfilled"

\* updateTransaction, up to `await fetch`.
updateTransaction(id, tx) ==
    /\ PutTransaction(id, tx)
    /\ Await("update", tx.user_id, id)

\* updateTransaction, from `if (!response.ok)`.
updateTransactionResume(m) ==
    /\ m.call = "update"
    /\ Resume(m)
    /\ cache' = IF m.ok THEN Mapped(cache, m.id, m.records[1]) ELSE Thrown(cache)
    /\ outcome' = IF m.ok THEN "fulfilled" ELSE "rejected"

\* deleteTransaction, up to `await fetch`.
deleteTransaction(caller, id) ==
    /\ DeleteTransaction(caller, id)
    /\ Await("delete", caller, id)

\* deleteTransaction, from `if (!res.ok)`.
deleteTransactionResume(m) ==
    /\ m.call = "delete"
    /\ Resume(m)
    /\ cache' = IF m.ok THEN Filtered(cache, m.id) ELSE Thrown(cache)
    /\ outcome' = IF m.ok THEN "fulfilled" ELSE "rejected"

ClientNext ==
    \/ \E transactionData \in ClientBodies \cup { Body(ClientUser, t) : t \in StaleTemplates } :
          addTransaction(transactionData)
    \/ \E m \in inflight : addTransactionResume(m)
    \/ \E user_id \in Users \cup {""} : fetchTransactions(user_id)
    \/ \E m \in inflight : fetchTransactionsResume(m)
    \/ \E id \in Ids, tx \in ClientBodies : updateTransaction(id, tx)
    \/ \E m \in inflight : updateTransactionResume(m)
    \/ \E id \in Ids : deleteTransaction(ClientUser, id)
    \/ \E m \in inflight : deleteTransactionResume(m)

\* One browser with the provider mounted, talking to the Ledger API.
ClientSpec == Init /\ [][ClientNext]_vars

----------------------------------------------------------------------------
(* Properties of the client ledger cache *)

\* The ids of the records of a list, in order.
IdsOf(list) == [i \in 1..Len(list) |-> list[i].id]

\* r is an element of list.
InList(r, list) == \E i \in 1..Len(list) : list[i] = r

\* C11: after a successful fetchTransactions the cache equals the result
\* sequence of the server exactly: every record that was in the cache before
\* and is not in the result is gone, nothing of the previous content is
\* merged in.
C11_FetchReplacesCache ==
    (settled.call = "fetch" /\ settled.ok) =>
        /\ cache = settled.records
        /\ \A i \in 1..Len(prev) :
              ~InList(prev[i], settled.records) => ~InList(prev[i], cache)

\* A successful fetch was read while the cache held a record of a
\* transaction that the result does not list.
C11_Witness ==
    /\ settled.call = "fetch" /\ settled.ok
    /\ cache = settled.records
    /\ \E i \in 1..Len(prev) :
          \A j \in 1..Len(settled.records) : settled.records[j].id # prev[i].id

\* C12: after a successful addTransaction the cache is the previous cache
\* with the record returned by the server appended as its last element; the
\* earlier elements and their order are unchanged.
C12_AddAppendsLast ==
    (settled.call = "add" /\ settled.ok) =>
        /\ Len(cache) = Len(prev) + 1
        /\ cache[Len(cache)] = settled.records[1]
        /\ \A i \in 1..Len(prev) : cache[i] = prev[i]

\* A successful add was read while the cache was not empty.
C12_Witness ==
    /\ settled.call = "add" /\ settled.ok
    /\ Len(prev) >= 1
    /\ cache[Len(cache)] = settled.records[1]
    /\ cache[Len(cache)] # cache[1]

\* C13: after a successful updateTransaction(tx) the cache has the same
\* length and the same order of ids as before; the element whose id equals
\* tx.id is the record returned by the server, every other element is
\* unchanged.
C13_UpdateReplacesInPlace ==
    (settled.call = "update" /\ settled.ok) =>
        /\ Len(cache) = Len(prev)
        /\ IdsOf(cache) = IdsOf(prev)
        /\ \A i \in 1..Len(prev) :
              IF prev[i].id = settled.id
              THEN cache[i] = settled.records[1]
              ELSE cache[i] = prev[i]

\* A successful update was read while the cache held the updated transaction
\* with other values and a second transaction.
C13_Witness ==
    /\ settled.call = "update" /\ settled.ok
    /\ \E i, j \in 1..Len(prev) :
          /\ prev[i].id = settled.id
          /\ prev[i].amount # settled.records[1].amount
          /\ cache[i] = settled.records[1]
          /\ prev[j].id # settled.id

\* The positions of list whose record has another id than id.
Others(list, id) == { i \in 1..Len(list) : list[i].id # id }

StoredRow(id, user_id) ==
    [id |-> id, user_id |-> user_id, amount |-> 1000, type |-> "income",
     date |-> 1, account |-> Null, document_no |-> Null, description |-> Null,
     category_id |-> "c1", created_at |-> id]

\* The store holds nothing, or one row of one of the users; the provider
\* has just been mounted.
SequentialInit ==
    /\ \E owner \in Users \cup {Undefined} :
          /\ transactions = IF owner = Undefined THEN {} ELSE {StoredRow(1, owner)}
          /\ nextId = IF owner = Undefined THEN 1 ELSE 2
    /\ categories = SampleCategories
    /\ req = Request("none", Undefined, 0, Undefined, NoBody)
    /\ resp = Response(0, NoRow, NoCategory, <<>>)
    /\ ClientInit
    /\ ReportsInit
    /\ TaxInit
    /\ ApiInit

\* No call is under way.
Idle == inflight = {}

\* One browser whose user waits for each call to end before starting the
\* next: the page fetches the user's transactions when it opens
\* (Transactions.tsx), then the user adds, edits and deletes.
SequentialNext ==
    \/ calls = 0 /\ fetchTransactions(ClientUser)
    \/ \E m \in inflight : fetchTransactionsResume(m)
    \/ calls > 0 /\ Idle /\ \E transactionData \in ClientBodies : addTransaction(transactionData)
    \/ \E m \in inflight : addTransactionResume(m)
    \/ calls > 0 /\ Idle /\ \E id \in Ids, tx \in ClientBodies : updateTransaction(id, tx)
    \/ \E m \in inflight : updateTransactionResume(m)
    \/ calls > 0 /\ Idle /\ \E id \in Ids : deleteTransaction(ClientUser, id)
    \/ \E m \in inflight : deleteTransactionResume(m)

SequentialSpec == SequentialInit /\ [][SequentialNext]_vars

\* The ids of the records of the cache, and of the rows the store holds for
\* a user.
CachedIds == { cache[i].id : i \in 1..Len(cache) }

StoredIds(user_id) == { t.id : t \in RowsOfUser(user_id) }

\* C26: with one client whose calls follow one another, once the initial
\* fetch has been read and no call is under way, the ids in the cache are the
\* ids of the rows the store holds for the user.
C26_CacheIdsEqualStoreIds ==
    (calls > 0 /\ Idle) => CachedIds = StoredIds(ClientUser)

\* The initial fetch and two more calls have ended, the last one a successful
\* add, and the store holds a row of the user that was there from the start.
C26_Witness ==
    /\ calls >= 3 /\ Idle
    /\ settled.call = "add" /\ settled.ok
    /\ Cardinality(CachedIds) >= 2
    /\ StoredRow(1, ClientUser) \in transactions

\* The calls that change one record.
Mutations == {"add", "update", "delete"}

\* No response has been read since the initial fetch was.
FetchedOnly == settled.call = "fetch"

\* One browser whose user starts two mutations one right after the other:
\* the page fetches when it opens, then two calls are sent before the
\* response of either is read, and the two responses are read in either
\* order.  The page offers edit and delete for the records it lists, so
\* that an update or a delete names an id of the cache.
RaceNext ==
    \/ calls = 0 /\ fetchTransactions(ClientUser)
    \/ \E m \in inflight : fetchTransactionsResume(m)
    \/ calls \in {1, 2} /\ FetchedOnly /\ \E transactionData \in ClientBodies : addTransaction(transactionData)
    \/ calls = 3 /\ \E m \in inflight : addTransactionResume(m)
    \/ calls \in {1, 2} /\ FetchedOnly /\ \E id \in CachedIds, tx \in ClientBodies : updateTransaction(id, tx)
    \/ calls = 3 /\ \E m \in inflight : updateTransactionResume(m)
    \/ calls \in {1, 2} /\ FetchedOnly /\ \E id \in CachedIds : deleteTransaction(ClientUser, id)
    \/ calls = 3 /\ \E m \in inflight : deleteTransactionResume(m)

RaceSpec == SequentialInit /\ [][RaceNext]_vars

\* The columns a form edits.
FormColumns == {"amount", "type", "date", "account", "document_no", "description", "category_id"}

\* The cache shows the rows the store holds for the user: the same ids, and
\* for each id the stored values.
CacheShowsStore ==
    /\ CachedIds = StoredIds(ClientUser)
    /\ \A i \in 1..Len(cache) : \A t \in RowsWithId(cache[i].id) :
          \A c \in FormColumns : cache[i][c] = t[c]

\* The response of the second of two successful mutations is read: the
\* first one's is the response read last, the second one's is the only one
\* waiting.
SecondCompletes ==
    /\ settled.call \in Mutations /\ settled.ok
    /\ \E m \in inflight : /\ m.call \in Mutations /\ m.ok
                            /\ settled' = m
                            /\ inflight' = {}

\* C27: when two mutations are in flight together and both succeed, the
\* cache after the second response has been read shows the result of both,
\* that is the rows the store holds, in whichever order the responses are
\* read.
C27_BothMutationsReflected ==
    [][SecondCompletes => CacheShowsStore']_vars

\* No two records of the list have the same id.
DistinctIds(list) ==
    \A i, j \in 1..Len(list) : i # j => list[i].id # list[j].id

\* C28: in every state the ids of the cached records are pairwise distinct,
\* and the record of a successful add is in the cache once its response has
\* been read.
C28_CachedIdsDistinct ==
    /\ DistinctIds(cache)
    /\ (settled.call = "add" /\ settled.ok) => InList(settled.records[1], cache)

\* The call that resumed last read a response that is not OK.
Failed == settled.call # "none" /\ ~settled.ok

\* C25: a call whose response is not OK leaves the cache as it was when the
\* response was read; the promise of a failed add, update or delete is
\* rejected, the promise of a failed fetch is fulfilled.
C25_FailedCallKeepsCache ==
    Failed =>
        /\ cache = prev
        /\ outcome = IF settled.call = "fetch" THEN "fulfilled" ELSE "rejected"

\* A fetch without user id was answered 400 while the cache held records.
C25_Witness ==
    /\ Failed
    /\ settled.call = "fetch"
    /\ prev # <<>>
    /\ cache = prev

----------------------------------------------------------------------------
(* Reporting aggregator: generateReportData of the Reports page *)

\* Transactions in the collection the Reports page aggregates.
MaxReportTx == 2

\* The calendar months the model knows.  A date 'YYYY-MM-DD' is the number
\* of its day, counted from 2024-10-31 (day 1 is 2024-11-01); first and last
\* are the first and the last day of the month.
Calendar ==
    { [label |-> "Oct 2024", year |-> 2024, month |-> 10, first |-> -30, last |-> 0],
      [label |-> "Nov 2024", year |-> 2024, month |-> 11, first |-> 1,  last |-> 30],
      [label |-> "Dec 2024", year |-> 2024, month |-> 12, first |-> 31, last |-> 61],
      [label |-> "Jan 2025", year |-> 2025, month |-> 1,  first |-> 62, last |-> 92] }

\* 2024-11-30, 2024-12-01, 2024-12-15, 2025-01-01.
ReportDates == {30, 31, 45, 62}

\* UTC offsets of the browser: New York (winter), UTC, Ulaanbaatar.
TimeZones == {-5, 0, 8}

\* new Date('YYYY-MM-DD').getTime(), in hours: a date-only string is read
\* as midnight UTC.
DateTime(date) == 24 * date

\* The calendar day on which the instant falls on a clock with UTC offset tz.
LocalDay(instant, tz) == (instant + tz + 24 * 31) \div 24 - 31

MonthOfDay(day) == CHOOSE c \in Calendar : c.first <= day /\ day <= c.last

\* new Date(date).toLocaleDateString('en-US', {month: 'short', year:
\* 'numeric'}): the month of the instant on the browser's clock.
MonthLabel(date, tz) == MonthOfDay(LocalDay(DateTime(date), tz)).label

\* new Date('Dec 2024').getTime(), in hours: the label is read as local
\* midnight of the first day of the month.
LabelTime(label, tz) ==
    24 * (CHOOSE c \in Calendar : c.label = label).first - tz

\* txDate >= start && txDate <= end
InRange_Exclusive(t, startDate, endDate) ==
    /\ DateTime(t.date) > DateTime(startDate)
    /\ DateTime(t.date) < DateTime(endDate)

InRange(t, startDate, endDate) ==
    /\ DateTime(t.date) >= DateTime(startDate)
    /\ DateTime(t.date) <= DateTime(endDate)

\* transactions.filter(...) of the date range.
filteredTransactions(list, startDate, endDate) ==
    SelectSeq(list, LAMBDA t : InRange(t, startDate, endDate))

\* list.filter(t => t.type === type).reduce((sum, t) => sum + Number(t.amount), 0).
\* Amounts are integers in hundredths, Number() reads the same value.
RECURSIVE SumOfType(_, _)
SumOfType(list, type) ==
    IF list = <<>> THEN 0
    ELSE (IF Head(list).type = type THEN Head(list).amount ELSE 0)
         + SumOfType(Tail(list), type)

\* x is truthy, for a string-or-null value.
Truthy(x) == x \notin {Undefined, Null, ""}

\* map.set(name, {value: (map.get(name)?.value || 0) + amount, color}) on a
\* Map kept as the sequence of its entries in insertion order.
SetBucket(map, name, amount, color) ==
    IF \E i \in 1..Len(map) : map[i].name = name
    THEN [i \in 1..Len(map) |->
            IF map[i].name = name
            THEN [name |-> name, value |-> map[i].value + amount, color |-> color]
            ELSE map[i]]
    ELSE Append(map, [name |-> name, value |-> amount, color |-> color])

\* The bucket of a transaction without category details.
UncategorizedName(type) ==
    IF type = "income" THEN "Uncategorized Income" ELSE "Uncategorized Expense"

UncategorizedColor(type) == IF type = "income" THEN "#10b981" ELSE "#ef4444"

\* BucketOf with the `else if (t.category_id)` branch left out.
BucketOf_NoFallback(map, t) ==
    IF t.categories # NoCategory
    THEN SetBucket(map, t.categories.name, t.amount,
                   IF Truthy(t.categories.color) THEN t.categories.color ELSE "#8884d8")
    ELSE map

\* The body of the forEach that fills incomeMap and expensesMap, for the map
\* the transaction belongs to.
BucketOf(map, t) ==
    IF t.categories # NoCategory
    THEN SetBucket(map, t.categories.name, t.amount,
                   IF Truthy(t.categories.color) THEN t.categories.color ELSE "#8884d8")
    ELSE IF Truthy(t.category_id)
    THEN SetBucket(map, UncategorizedName(t.type), t.amount, UncategorizedColor(t.type))
    ELSE map

\* incomeMap (income = TRUE) or expensesMap after the forEach over list,
\* starting from map.
RECURSIVE GroupByCategory(_, _, _)
GroupByCategory(list, map, income) ==
    IF list = <<>> THEN map
    ELSE GroupByCategory(Tail(list),
                         IF (Head(list).type = "income") = income
                         THEN BucketOf(map, Head(list))
                         ELSE map,
                         income)

\* The body of the forEach that fills monthlyMap.
MonthOf(map, t, tz) ==
    LET month == MonthLabel(t.date, tz)
        existing ==
            IF \E i \in 1..Len(map) : map[i].month = month
            THEN map[CHOOSE i \in 1..Len(map) : map[i].month = month]
            ELSE [month |-> month, income |-> 0, expenses |-> 0, profit |-> 0]
        income == existing.income + (IF t.type = "income" THEN t.amount ELSE 0)
        expenses == existing.expenses + (IF t.type = "income" THEN 0 ELSE t.amount)
        entry == [month |-> month, income |-> income, expenses |-> expenses,
                  profit |-> income - expenses]
    IN  IF \E i \in 1..Len(map) : map[i].month = month
        THEN [i \in 1..Len(map) |-> IF map[i].month = month THEN entry ELSE map[i]]
        ELSE Append(map, entry)

RECURSIVE GroupByMonth(_, _, _)
GroupByMonth(list, map, tz) ==
    IF list = <<>> THEN map
    ELSE GroupByMonth(Tail(list), MonthOf(map, Head(list), tz), tz)

\* The set of the elements of a sequence.
Range(list) == { list[i] : i \in 1..Len(list) }

\* .sort((a, b) => new Date(a.month).getTime() - new Date(b.month).getTime())
\* of the entries of monthlyMap, whose labels are pairwise distinct.
SortedByMonth(entries, tz) ==
    CHOOSE s \in Orderings(Range(entries)) :
        \A i, j \in 1..Len(s) :
            i < j => LabelTime(s[i].month, tz) <= LabelTime(s[j].month, tz)

\* The state of the page after generateReportData has run in state r.
Generated(r, list, tz) ==
    LET filtered == filteredTransactions(list, r.startDate, r.endDate)
        income == SumOfType(filtered, "income")
        expenses == SumOfType(filtered, "expense")
    IN  [r EXCEPT !.loading = FALSE,
                  !.totalIncome = income,
                  !.totalExpenses = expenses,
                  !.netBalance = income - expenses,
                  !.incomeByCategory = GroupByCategory(filtered, <<>>, TRUE),
                  !.expensesByCategory = GroupByCategory(filtered, <<>>, FALSE),
                  !.monthlyData = SortedByMonth(GroupByMonth(filtered, <<>>, tz), tz)]

\* useEffect(..., [user, transactions, startDate, endDate]) run on the state r
\* of a render: generateReportData runs only for a non-empty collection.
Effect(r) ==
    /\ report' = IF Len(cache) > 0 THEN Generated(r, cache, timeZone) ELSE r
    /\ UNCHANGED <<serverVars, clientVars, timeZone>>
    /\ NoTax /\ NoApi

\* The effect after the first render.
ReportsMounted ==
    /\ report.loading
    /\ Len(cache) > 0
    /\ Effect(report)

\* The date inputs: setStartDate / setEndDate and the effect of the render
\* that follows.
setStartDate(date) == Effect([report EXCEPT !.startDate = date])

setEndDate(date) == Effect([report EXCEPT !.endDate = date])

\* The records the Reports page is given: (type, amount in hundredths, date,
\* category_id, category info).  A record appended by addTransaction has a
\* category_id and no category info.
ReportTemplates ==
    { <<"income",  1000, 31, "c1", [id |-> "c1", name |-> "Salary", color |-> "#10b981"]>>,
      <<"expense",  250, 45, "c3", [id |-> "c3", name |-> "Food", color |-> "#ef4444"]>>,
      <<"income",   500, 62, "c1", NoCategory>>,
      <<"expense",  300, 30, Null, NoCategory>>,
      <<"expense",  700, 62, "c3", [id |-> "c3", name |-> "Food", color |-> Null]>>,
      <<"income",  -400, 45, Null, NoCategory>> }

ReportRecord(id, t) ==
    Transaction([id |-> id, user_id |-> ClientUser, amount |-> t[2], type |-> t[1],
                 date |-> t[3], account |-> Null, document_no |-> Null,
                 description |-> Null, category_id |-> t[4]], 0, t[5])

\* The collections of at most MaxReportTx records; the id of a record is its
\* position.
Collections ==
    UNION { { [i \in 1..n |-> ReportRecord(i, f[i])] : f \in [1..n -> ReportTemplates] } :
            n \in 0..MaxReportTx }

\* The Reports page opens on some collection, in some time zone, with some
\* range in its date inputs.
ReportInit ==
    /\ transactions = {}
    /\ categories = SampleCategories
    /\ nextId = 1
    /\ req = Request("none", Undefined, 0, Undefined, NoBody)
    /\ resp = Response(0, NoRow, NoCategory, <<>>)
    /\ cache \in Collections
    /\ prev = <<>>
    /\ inflight = {}
    /\ settled = NoAnswer
    /\ calls = 0
    /\ outcome = "pending"
    /\ \E startDate \in ReportDates, endDate \in ReportDates :
          report = ReportState(startDate, endDate)
    /\ timeZone \in TimeZones
    /\ TaxInit
    /\ ApiInit

ReportNext ==
    \/ ReportsMounted
    \/ \E date \in ReportDates : setStartDate(date)
    \/ \E date \in ReportDates : setEndDate(date)

ReportSpec == ReportInit /\ [][ReportNext]_vars

\* React runs the effect of a render once the render is committed: the
\* effect after the first render cannot be put off for ever.
FairReportSpec == ReportSpec /\ WF_vars(ReportsMounted)

----------------------------------------------------------------------------
(* Properties of the reporting aggregator *)

\* The sum of the amounts of the records of list at the positions in I.
RECURSIVE SumAt(_, _)
SumAt(list, I) ==
    IF I = {} THEN 0
    ELSE LET i == CHOOSE i \in I : TRUE
         IN  list[i].amount + SumAt(list, I \ {i})

\* The positions of the records of the collection that have the given type
\* and a date within the range of the page, both bounds included.
InRangeOfType(type) ==
    { i \in 1..Len(cache) :
        /\ cache[i].type = type
        /\ report.startDate <= cache[i].date
        /\ cache[i].date <= report.endDate }

\* C15: for every collection and every date range, totalIncome is the sum of
\* the amounts of the income transactions with start <= date <= end,
\* totalExpenses the same sum for expenses, netBalance their difference;
\* transactions outside the range contribute to none of the three.
C15_TotalsOverRange ==
    ~report.loading =>
        /\ report.totalIncome = SumAt(cache, InRangeOfType("income"))
        /\ report.totalExpenses = SumAt(cache, InRangeOfType("expense"))
        /\ report.netBalance = report.totalIncome - report.totalExpenses

\* The aggregator ran on a collection with an income dated on the start of
\* the range, which it counted, and a record outside the range.
C15_Witness ==
    /\ ~report.loading
    /\ \E i, j \in 1..Len(cache) :
          /\ cache[i].type = "income"
          /\ cache[i].date = report.startDate
          /\ cache[i].date <= report.endDate
          /\ cache[j].date > report.endDate
          /\ report.totalIncome = cache[i].amount
          /\ report.totalExpenses = 0
          /\ report.netBalance = cache[i].amount

\* The positions of the in-range records.
InRangePositions == InRangeOfType("income") \cup InRangeOfType("expense")

\* The positions of the in-range records of the given type whose date lies
\* in the calendar month c.
InMonthOfType(c, type) ==
    { i \in InRangeOfType(type) : c.first <= cache[i].date /\ cache[i].date <= c.last }

\* C16: monthlyTrend has exactly one entry per calendar month in which an
\* in-range transaction falls, in strictly ascending chronological order,
\* and each entry carries the sums of that month's in-range amounts by type
\* with profit = income - expenses.
C16_MonthlyTrendPerCalendarMonth ==
    ~report.loading =>
        LET months == { MonthOfDay(cache[i].date) : i \in InRangePositions }
            trend == report.monthlyData
        IN  /\ Len(trend) = Cardinality(months)
            /\ { trend[k].month : k \in 1..Len(trend) } = { c.label : c \in months }
            /\ \A k, l \in 1..Len(trend) :
                  k < l => \E c, d \in months :
                              /\ c.label = trend[k].month
                              /\ d.label = trend[l].month
                              /\ c.first < d.first
            /\ \A k \in 1..Len(trend) : \A c \in months :
                  c.label = trend[k].month =>
                      /\ trend[k].income = SumAt(cache, InMonthOfType(c, "income"))
                      /\ trend[k].expenses = SumAt(cache, InMonthOfType(c, "expense"))
                      /\ trend[k].profit = trend[k].income - trend[k].expenses

\* A category bucket of the given type and name: the positions of the
\* in-range records of the type that carry category info with that name.
WithCategoryName(type, name) ==
    { i \in InRangeOfType(type) :
        cache[i].categories # NoCategory /\ cache[i].categories.name = name }

\* The positions of the in-range records of the type that have a category
\* reference and no category info.
Unresolved(type) ==
    { i \in InRangeOfType(type) :
        cache[i].categories = NoCategory /\ Truthy(cache[i].category_id) }

\* byCategory is the category breakdown of the given type.
IsBreakdown(byCategory, type) ==
    LET names == { cache[i].categories.name :
                     i \in { j \in InRangeOfType(type) : cache[j].categories # NoCategory } }
        fallback == IF Unresolved(type) = {} THEN {} ELSE {UncategorizedName(type)}
    IN  /\ { byCategory[k].name : k \in 1..Len(byCategory) } = names \cup fallback
        /\ Len(byCategory) = Cardinality(names \cup fallback)
        /\ \A k \in 1..Len(byCategory) :
              IF byCategory[k].name \in names
              THEN byCategory[k].value = SumAt(cache, WithCategoryName(type, byCategory[k].name))
              ELSE /\ byCategory[k].value = SumAt(cache, Unresolved(type))
                   /\ byCategory[k].color = UncategorizedColor(type)

\* C17: incomeByCategory maps each category display name to the sum of the
\* in-range income amounts carrying that category's info, expensesByCategory
\* likewise for expenses; an in-range transaction with a category reference
\* and no resolved category info is added to 'Uncategorized Income' or
\* 'Uncategorized Expense' by its type, with the fallback color of the type.
C17_CategoryBreakdown ==
    ~report.loading =>
        /\ IsBreakdown(report.incomeByCategory, "income")
        /\ IsBreakdown(report.expensesByCategory, "expense")

\* The aggregator ran on a collection with an income that carries category
\* info and an income that has only a category reference.
C17_Witness ==
    /\ ~report.loading
    /\ WithCategoryName("income", "Salary") # {}
    /\ Unresolved("income") # {}
    /\ Len(report.incomeByCategory) = 2
    /\ \E k \in 1..2 :
          /\ report.incomeByCategory[k].name = "Uncategorized Income"
          /\ report.incomeByCategory[k].value > 0
          /\ report.incomeByCategory[k].color = "#10b981"

\* The page shows what generateReportData computes from the collection and
\* the range it has now.
ShowsAggregation == report = Generated(report, cache, timeZone)

\* C29: for every collection, the empty one included, the page eventually
\* leaves its loading state, and whenever it is not loading, the totals, the
\* category breakdowns and the monthly trend it shows are the aggregation of
\* the collection over the range.
C29_EventuallyShowsAggregation ==
    /\ <>(~report.loading)
    /\ [](~report.loading => ShowsAggregation)

\* The sum of the values of the entries of a category breakdown.
RECURSIVE SumOfValues(_)
SumOfValues(byCategory) ==
    IF byCategory = <<>> THEN 0
    ELSE Head(byCategory).value + SumOfValues(Tail(byCategory))

\* The positions of the in-range records of the type that have category
\* info or a category reference.
Categorized(type) ==
    { i \in InRangeOfType(type) :
        cache[i].categories # NoCategory \/ Truthy(cache[i].category_id) }

\* The values of byCategory sum to the amounts of the categorized in-range
\* records of the type, which is at most total, and is total when every
\* in-range record of the type is categorized.
SumsToCategorized(byCategory, type, total) ==
    /\ SumOfValues(byCategory) = SumAt(cache, Categorized(type))
    /\ SumOfValues(byCategory) <= total
    /\ Categorized(type) = InRangeOfType(type) => SumOfValues(byCategory) = total

\* C30: the values of incomeByCategory sum to the total amount of the
\* in-range income transactions that have category info or a category
\* reference: never more than totalIncome, and totalIncome when no in-range
\* income lacks both; the same for expensesByCategory and totalExpenses.
C30_BreakdownSumsToCategorizedTotal ==
    ~report.loading =>
        /\ SumsToCategorized(report.incomeByCategory, "income", report.totalIncome)
        /\ SumsToCategorized(report.expensesByCategory, "expense", report.totalExpenses)

----------------------------------------------------------------------------
(* Tax calculator: the calculate-tax function and table company_settings *)

\* SQL NULL in a numeric column.
NullRate == -1

\* The rate used for a missing one (`|| 10`).
DefaultRate == 10

\* The settings a company saves: (vat_registered, vat_rate, income_tax_rate).
SettingsTemplates ==
    { <<TRUE,  10, 10>>,
      <<TRUE,  20, 25>>,
      <<TRUE,  0, 10>>,
      <<TRUE,  NullRate, NullRate>>,
      <<TRUE,  100, 0>>,
      <<FALSE, 10, 10>>,
      <<FALSE, 20, 0>> }

Settings(user_id, t) ==
    [user_id |-> user_id, vat_registered |-> t[1], vat_rate |-> t[2],
     income_tax_rate |-> t[3]]

\* Request amounts, in hundredths: 0, 0.03, 0.25, 0.75, 110.00, 99.99, -11.00.
TaxAmounts == {0, 3, 25, 75, 11000, 9999, -1100}

\* JavaScript `rate || 10` on a number or null: null and 0 are falsy.
RateOrDefault(rate) == IF rate = NullRate \/ rate = 0 THEN DefaultRate ELSE rate

\* Math.round(x * 100) / 100 for x = n / d of the currency unit in hundredths
\* (d > 0): the nearest hundredth, a half rounded up.
Round2(n, d) == (2 * n + d) \div (2 * d)

\* .from('company_settings').select(...).eq('user_id', user.id).maybeSingle():
\* the rows the caller's SELECT policy shows (at most one, user_id is UNIQUE).
CompanySettings(user_id) == { c \in company_settings : c.user_id = user_id }

\* vatRate of the handler, for the settings rows found.
VatRate(found) ==
    IF found = {} THEN 0
    ELSE LET companySettings == CHOOSE c \in found : TRUE
         IN  IF companySettings.vat_registered
             THEN RateOrDefault(companySettings.vat_rate)
             ELSE 0

\* incomeTaxRate of the handler.
IncomeTaxRate(found) ==
    IF found = {} THEN DefaultRate
    ELSE RateOrDefault((CHOOSE c \in found : TRUE).income_tax_rate)

\* companySettings?.vat_registered
VatRegistered(found) == found # {} /\ (CHOOSE c \in found : TRUE).vat_registered

\* VatAmount computed as VAT added on top of the amount.
VatAmount_OnTop(amount, vatRate, registered) ==
    IF registered THEN Round2(amount * vatRate, 100) ELSE 0

\* result.vatAmount: (amount * vatRate) / (100 + vatRate), rounded.
VatAmount(amount, vatRate, registered) ==
    IF registered THEN Round2(amount * vatRate, 100 + vatRate) ELSE 0

\* result.amountWithoutVat: amount - vatAmount with the unrounded vatAmount,
\* rounded.
AmountWithoutVat(amount, vatRate, registered) ==
    IF registered THEN Round2(amount * 100, 100 + vatRate) ELSE amount

\* result.incomeTaxAmount: (amountWithoutVat * incomeTaxRate) / 100 with the
\* unrounded amountWithoutVat, rounded.
IncomeTaxAmount(amount, vatRate, registered, incomeTaxRate) ==
    IF registered
    THEN Round2(amount * incomeTaxRate, 100 + vatRate)
    ELSE Round2(amount * incomeTaxRate, 100)

\* INSERT or UPDATE of the caller's own row of company_settings (the
\* policies allow both for auth.uid() = user_id).
SaveCompanySettings(user_id, t) ==
    /\ company_settings' =
          { c \in company_settings : c.user_id # user_id } \cup {Settings(user_id, t)}
    /\ UNCHANGED <<serverVars, clientVars, reportVars, apiVars, taxReq, taxResp>>

\* Authenticated with the test `if (!user)` left out.
Authenticated_Always(caller) == TRUE

\* auth.getUser() found a user for the Authorization header.
Authenticated(caller) == caller # Undefined

\* The type of a request whose body is not JSON: `await req.json()` throws.
NotJson == "not json"

\* POST to calculate-tax.  The user is looked up first, then the body is
\* parsed, then the settings are read; an exception is answered 500.
CalculateTax(caller, amount, type) ==
    /\ taxReq' = TaxRequest(caller, amount, type)
    /\ IF ~Authenticated(caller)
       THEN taxResp' = TaxError(401)
       ELSE IF type = NotJson
       THEN taxResp' = TaxError(500)
       ELSE LET found == CompanySettings(caller)
                vatRate == VatRate(found)
                incomeTaxRate == IncomeTaxRate(found)
                registered == VatRegistered(found)
            IN  taxResp' =
                  TaxResponse(200,
                              VatAmount(amount, vatRate, registered),
                              vatRate,
                              AmountWithoutVat(amount, vatRate, registered),
                              type = "income",
                              IF type = "income"
                              THEN IncomeTaxAmount(amount, vatRate, registered, incomeTaxRate)
                              ELSE 0,
                              IF type = "income" THEN incomeTaxRate ELSE 0)
    /\ UNCHANGED <<serverVars, clientVars, reportVars, apiVars, company_settings>>

TaxNext ==
    \/ \E user_id \in Users, t \in SettingsTemplates : SaveCompanySettings(user_id, t)
    \/ \E caller \in Users \cup {Undefined}, amount \in TaxAmounts, type \in Types :
          CalculateTax(caller, amount, type)
    \/ \E caller \in Users \cup {Undefined} : CalculateTax(caller, 0, NotJson)

TaxSpec == Init /\ [][TaxNext]_vars

----------------------------------------------------------------------------
(* Properties of the tax calculator *)

\* A step in which the tax calculator answers with a result: it reads
\* company_settings and leaves it as it is.
TaxAnswered == company_settings' = company_settings /\ taxResp'.status = 200

\* The VAT rate a settings row configures; a row without one has the default.
ConfiguredVatRate(c) == IF c.vat_rate = NullRate THEN DefaultRate ELSE c.vat_rate

\* C18: the returned vatRate equals the caller's configured VAT rate when the
\* caller's settings exist and are VAT registered, for every configured rate,
\* and 0 when the caller is not registered or has no settings row.
C18_VatRateIsConfiguredRate ==
    [][TaxAnswered =>
        LET found == CompanySettings(taxReq'.caller)
        IN  IF VatRegistered(found)
            THEN \A c \in found : taxResp'.vatRate = ConfiguredVatRate(c)
            ELSE taxResp'.vatRate = 0]_vars

\* v is n / d rounded to the nearest integer (d > 0).
IsNearest(v, n, d) == -d <= 2 * (v * d - n) /\ 2 * (v * d - n) <= d

\* C19: for a VAT-registered caller the returned vatAmount is
\* amount x vatRate / (100 + vatRate) rounded to 2 decimal places, with the
\* returned vatRate (the VAT inside a VAT-inclusive amount, not
\* amount x vatRate / 100); for a caller who is not registered it is 0.
C19_VatAmountIsInclusiveVat ==
    [][TaxAnswered =>
        IF VatRegistered(CompanySettings(taxReq'.caller))
        THEN IsNearest(taxResp'.vatAmount,
                       taxReq'.amount * taxResp'.vatRate,
                       100 + taxResp'.vatRate)
        ELSE taxResp'.vatAmount = 0]_vars

\* A registered caller with rate 10 asked for 110.00 and got vatAmount
\* 10.00, which is not 110.00 x 10 / 100 = 11.00.
C19_Witness ==
    /\ taxResp.status = 200
    /\ taxReq.amount = 11000
    /\ \E c \in CompanySettings(taxReq.caller) : c.vat_registered /\ c.vat_rate = 10
    /\ taxResp.vatRate = 10
    /\ taxResp.vatAmount = 1000
    /\ taxResp.vatAmount # (taxReq.amount * taxResp.vatRate) \div 100

\* C20: in every response, for every amount with at most 2 decimal places
\* and every VAT rate, the returned amountWithoutVat equals the request
\* amount minus the returned vatAmount.
C20_AmountWithoutVatIsDifference ==
    taxResp.status = 200 =>
        taxResp.amountWithoutVat = taxReq.amount - taxResp.vatAmount

\* The income tax rate a settings row configures; a row without one has the
\* default.
ConfiguredIncomeTaxRate(c) ==
    IF c.income_tax_rate = NullRate THEN DefaultRate ELSE c.income_tax_rate

\* The amount without VAT before rounding is n / d hundredths, for the rate
\* and registration the response was computed with.
WithoutVatNumerator(amount, registered) == IF registered THEN amount * 100 ELSE amount

WithoutVatDenominator(vatRate, registered) == IF registered THEN 100 + vatRate ELSE 1

\* C21: the response contains incomeTaxAmount and incomeTaxRate if and only
\* if the request type is income; when present, incomeTaxAmount is
\* amountWithoutVat x incomeTaxRate / 100 rounded to 2 decimal places, and
\* incomeTaxRate is the caller's configured rate, or 10 when the caller has
\* no settings.
C21_IncomeTaxOnlyForIncome ==
    [][TaxAnswered =>
        LET found == CompanySettings(taxReq'.caller)
            registered == VatRegistered(found)
        IN  /\ taxResp'.incomeTax <=> taxReq'.type = "income"
            /\ taxResp'.incomeTax =>
                  /\ IF found = {}
                     THEN taxResp'.incomeTaxRate = DefaultRate
                     ELSE \A c \in found :
                            taxResp'.incomeTaxRate = ConfiguredIncomeTaxRate(c)
                  /\ IsNearest(taxResp'.incomeTaxAmount,
                               WithoutVatNumerator(taxReq'.amount, registered)
                                 * taxResp'.incomeTaxRate,
                               WithoutVatDenominator(taxResp'.vatRate, registered) * 100)]_vars

\* A step in which the tax calculator handles a request.
TaxHandled == taxReq' # taxReq \/ taxResp' # taxResp

\* C22: a request without an authenticated identity is answered 401 with no
\* tax figures, whatever its body and the settings table hold (neither has
\* been read); a 200 response with tax figures is produced only for an
\* authenticated caller; the calculation writes nothing.
C22_UnauthorizedBeforeAnythingElse ==
    [][TaxHandled =>
        /\ taxReq'.caller = Undefined => taxResp' = TaxError(401)
        /\ taxResp'.status = 200 => taxReq'.caller \in Users
        /\ UNCHANGED <<company_settings, serverVars, clientVars, reportVars>>]_vars

\* A request without identity whose body is not JSON was answered 401 while
\* the settings table had rows.
C22_Witness ==
    /\ taxReq.caller = Undefined
    /\ taxReq.type = NotJson
    /\ taxResp = TaxError(401)
    /\ company_settings # {}

-----------------------------------------------------------------------------
\* The account endpoints and the error responses of the Express server.

Emails == {"bat@example.mn", "saraa@example.mn"}
Passwords == {"secret1", "secret2"}
Names == {"Bat"}
UserTypes == {"individual"}

\* bcrypt.hash(password, 10): a string that is no password, from which
\* bcrypt.compare recognises the password it was made of.
Hash(password) == "$2b$10$" \o password

Hashes == { Hash(password) : password \in Passwords }

\* bcrypt.compare(password, hash)
Compare(password, hash) == hash = Hash(password)

\* A row of table users (the organization columns and created_at, which no
\* handler reads, are left out).
User(id, name, email, user_type, password) ==
    [id |-> id, name |-> name, email |-> email, user_type |-> user_type,
     password |-> password]

\* userWithoutPassword with the password left in.
UserWithoutPassword_Whole(user) == user

\* const { password: _, ...userWithoutPassword } = user
UserWithoutPassword(user) ==
    [f \in DOMAIN user \ {"password"} |-> user[f]]

\* RETURNING id, name, email, user_type, ... of the INSERT of signup.
Returning(user) ==
    [id |-> user.id, name |-> user.name, email |-> user.email,
     user_type |-> user.user_type]

\* SELECT * FROM users WHERE email = $1
UsersWithEmail(email) == { u \in users : u.email = email }

\* !x of JavaScript for the values a body property takes here.
Not(x) == x \in {Undefined, Null, ""}

InternalServerError == "Internal server error"
SomethingWentWrong == "Something went wrong!"
ErrorMiddleware == "error middleware"

\* The routes whose handlers query the store inside try/catch.
HealthRoute == "GET /api/health"
LoginRoute == "POST /api/login"
SignupRoute == "POST /api/signup"
PostTransactionsRoute == "POST /api/transactions"
Routes ==
    {HealthRoute, LoginRoute, SignupRoute, PostTransactionsRoute,
     "GET /api/categories", "GET /api/transactions",
     "DELETE /api/transactions/:id", "PUT /api/transactions/:id"}

\* The messages of the errors the store raises.
ConnectionRefused == "connect ECONNREFUSED 127.0.0.1:5432"
UniqueViolation == "duplicate key value violates unique constraint \"users_email_key\""
StoreErrors == {ConnectionRefused, UniqueViolation}

\* The response of the catch block of a route's handler, or of the error
\* middleware, for an error with the message `error`.
CatchResponse(route, error) ==
    IF route = HealthRoute
    THEN ApiResponse(500, Undefined, error, NoUser)
    ELSE IF route = PostTransactionsRoute
    THEN ApiResponse(500, InternalServerError, error, NoUser)
    ELSE IF route = ErrorMiddleware
    THEN ApiResponse(500, SomethingWentWrong,
                     IF NODE_ENV = "development" THEN error ELSE Undefined, NoUser)
    ELSE ApiResponse(500, InternalServerError, Undefined, NoUser)

NoLedger == UNCHANGED <<serverVars, clientVars, reportVars, taxVars>>

\* POST /api/login.  `failure` is the error the SELECT raises, NoError if
\* it raises none.
Login(email, password, failure) ==
    LET body == Credentials(Undefined, email, Undefined, password)
        rows == UsersWithEmail(email)
    IN  /\ IF Not(email) \/ Not(password)
           THEN /\ apiReq' = ApiRequest(LoginRoute, body, NoError)
                /\ apiResp' = ApiResponse(400, "Email and password are required",
                                          Undefined, NoUser)
           ELSE IF failure # NoError
           THEN /\ apiReq' = ApiRequest(LoginRoute, body, failure)
                /\ apiResp' = CatchResponse(LoginRoute, failure)
           ELSE /\ apiReq' = ApiRequest(LoginRoute, body, NoError)
                /\ IF rows = {}
                   THEN apiResp' = ApiResponse(400, "Invalid email or password",
                                               Undefined, NoUser)
                   ELSE LET user == CHOOSE u \in rows : TRUE
                        IN  IF ~Compare(password, user.password)
                            THEN apiResp' = ApiResponse(400, "Invalid email or password",
                                                        Undefined, NoUser)
                            ELSE apiResp' = ApiResponse(200, "Login successful", Undefined,
                                                        UserWithoutPassword(user))
        /\ UNCHANGED <<users, NODE_ENV>>
        /\ NoLedger

\* POST /api/signup.  `failure` is the error the connection raises; column
\* email is UNIQUE, so that the INSERT of a taken email raises an error too.
Signup(name, email, user_type, password, failure) ==
    LET body == Credentials(name, email, user_type, password)
        raised == IF failure # NoError THEN failure
                  ELSE IF UsersWithEmail(email) # {} THEN UniqueViolation
                  ELSE NoError
        user == User(Cardinality(users) + 1, IF Not(name) THEN Null ELSE name,
                     email, user_type, Hash(password))
    IN  /\ IF Not(email) \/ Not(user_type) \/ Not(password)
           THEN /\ apiReq' = ApiRequest(SignupRoute, body, NoError)
                /\ apiResp' = ApiResponse(400, "Email, user_type and password are required",
                                          Undefined, NoUser)
                /\ users' = users
           ELSE IF raised # NoError
           THEN /\ apiReq' = ApiRequest(SignupRoute, body, raised)
                /\ apiResp' = CatchResponse(SignupRoute, raised)
                /\ users' = users
           ELSE /\ apiReq' = ApiRequest(SignupRoute, body, NoError)
                /\ apiResp' = ApiResponse(201, Undefined, Undefined, Returning(user))
                /\ users' = users \cup {user}
        /\ UNCHANGED NODE_ENV
        /\ NoLedger

\* A request to one of the other routes during which the store raises an
\* error, or a request whose error Express hands to the error middleware
\* (a body that is not JSON, for one).
HandlerFails(route, error) ==
    /\ apiReq' = ApiRequest(route, NoCredentials, error)
    /\ apiResp' = CatchResponse(route, error)
    /\ UNCHANGED <<users, NODE_ENV>>
    /\ NoLedger

\* The server process is started in the environment env; it has answered
\* nothing yet.  Table users outlives the process.
Listen(env) ==
    /\ NODE_ENV' = env
    /\ apiReq' = ApiRequest("none", NoCredentials, NoError)
    /\ apiResp' = ApiResponse(0, Undefined, Undefined, NoUser)
    /\ UNCHANGED users
    /\ NoLedger

ApiNext ==
    \/ \E email \in Emails \cup {Undefined}, password \in Passwords \cup {Undefined},
          failure \in {NoError, ConnectionRefused} : Login(email, password, failure)
    \/ \E name \in Names \cup {Undefined}, email \in Emails \cup {Undefined},
          user_type \in UserTypes \cup {Undefined}, password \in Passwords \cup {Undefined},
          failure \in {NoError, ConnectionRefused} :
            Signup(name, email, user_type, password, failure)
    \/ \E route \in (Routes \ {LoginRoute, SignupRoute}) \cup {ErrorMiddleware},
          error \in StoreErrors : HandlerFails(route, error)
    \/ \E env \in Environments : Listen(env)

ApiSpec == Init /\ [][ApiNext]_vars

\* The passwords and the hashes made of them.
Secrets == Passwords \cup Hashes

\* The values of the properties of a response body.
BodyValues(r) ==
    {r.message, r.error} \cup { r.user[f] : f \in DOMAIN r.user \ {"id"} }

AccountRoutes == {LoginRoute, SignupRoute}

AccountAnswered == apiReq'.route \in AccountRoutes /\ <<apiReq, apiResp>>' # <<apiReq, apiResp>>

\* The login request names no row of users, or a row with another password.
UnknownOrWrong(r) ==
    \A u \in UsersWithEmail(r.body.email) : ~Compare(r.body.password, u.password)

\* C23: no response of login or signup has a property password or a value
\* that is a password or a password hash; a login whose email is unknown or
\* whose password is wrong is answered 400 without user data, unless the
\* store fails (then 500, without user data either).
C23_NoPasswordInAccountResponses ==
    [][AccountAnswered =>
        /\ "password" \notin DOMAIN apiResp'.user
        /\ BodyValues(apiResp') \cap Secrets = {}
        /\ (apiReq'.route = LoginRoute /\ UnknownOrWrong(apiReq')) =>
              /\ apiResp'.user = NoUser
              /\ apiReq'.failure = NoError => apiResp'.status = 400]_vars

\* A login with the right password was answered with the user's row.
C23_Witness ==
    /\ apiReq.route = LoginRoute
    /\ apiResp.status = 200
    /\ \E u \in users : /\ u.email = apiReq.body.email
                        /\ u.password \in Hashes
                        /\ UserWithoutPassword(u) = apiResp.user

GenericMessages == {InternalServerError, SomethingWentWrong}

\* C24: a request during which the store or the infrastructure raised an
\* error is answered 500 with a generic message, and the body has the
\* error's message only if the server runs in development mode.
C24_ErrorMessageOnlyInDevelopment ==
    apiReq.failure # NoError =>
        /\ apiResp.status = 500
        /\ apiResp.message \in GenericMessages
        /\ apiResp.error # Undefined => NODE_ENV = "development"
====
